---- MODULE Spec2Model ----
(***************************************************************************)
(* A model of src/disas.py: the identifier and literal formatter, the      *)
(* structural unpackers, the name allocator, the tree serializer and the   *)
(* driver loops of disas().                                                *)
(*                                                                         *)
(* Text is modelled as a sequence of Unicode code points, so that ord(),   *)
(* the regular expressions and the escapes are computed as the code        *)
(* computes them.  Each string literal of the source appears below as the  *)
(* tuple of its code points, with the literal in a comment.                *)
(***************************************************************************)
EXTENDS Integers, Sequences, FiniteSets, TLC

VARIABLES
    fin,        \* formatter call: the argument string
    fout,       \* formatter call: the returned string
    fout2,      \* make_ident applied to its own result
    fpc,        \* formatter call: "start" | "once" | "twice"
    u_obj,      \* MessageUnpacker.obj: the mapping the scope is over
    u_body,     \* the pops of the with-block's body still to run
    u_pc,       \* "body" | "exit" | "done"
    u_pending,  \* the exception that ended the body (NoExc: none)
    u_err,      \* the exception the with-block ends with (NoExc: none)
    u_last,     \* the last pop: its arguments, obj before and after, its result
    o_obj,      \* the mapping OneOfMessageUnpacker is constructed over
    o_self,     \* OneOfMessageUnpacker's fields key, val, matched
    o_pc,       \* "new" | "body" | "done"
    o_err,      \* the exception the with-block ends with (NoExc: none)
    o_calls,    \* the handle calls made so far: argument and returned value
    uq_calls,   \* the uniquify calls made so far: argument, result, names before
    plan,       \* disas: the decoded plan, a mapping
    pc,         \* disas: "unpack" | "uris" | "exts" | "proto" | "rels" | "return" | "done" | "failed"
    idx,        \* disas: the position of the running loop in its list (from 0)
    extension_uris, extensions, relations,
    toplevel_enhancement, toplevel_optimization, expected_type_urls,
    used_names, \* disas: the set of issued names
    output,     \* disas: the statements appended so far
    uri_lookup, typ_lookup, tv_lookup, fn_lookup,
    err,        \* disas: the exception the run ended with (NoExc: none)
    result      \* disas: the returned text

fmtVars == <<fin, fout, fout2, fpc>>
unpVars == <<u_obj, u_body, u_pc, u_pending, u_err, u_last>>
oneofVars == <<o_obj, o_self, o_pc, o_err, o_calls>>
planVars == <<plan, extension_uris, extensions, relations, toplevel_enhancement,
              toplevel_optimization, expected_type_urls>>
tableVars == <<uri_lookup, typ_lookup, tv_lookup, fn_lookup>>
disasVars == <<planVars, tableVars, pc, idx, output, err, result>>

vars == <<fmtVars, unpVars, oneofVars, uq_calls, used_names, disasVars>>

---------------------------------------------------------------------------
(* Bounds of the model.                                                    *)

MaxIdentLen == 3
MaxStrLen == 2
MaxFields == 2
MaxHandleCalls == 2
MaxUniquifyCalls == 4
MaxDepth == 2
MaxUris == 2
MaxExtensions == 2
MaxRelations == 2

---------------------------------------------------------------------------
(* Sequences of code points.                                               *)

\* All strings over alphabet A of length at most n.
StringsUpTo(A, n) == UNION {[1..k -> A] : k \in 0..n}

RECURSIVE Concat(_)
\* ''.join(parts)
Concat(parts) ==
    IF parts = <<>> THEN <<>> ELSE Head(parts) \o Concat(Tail(parts))

RECURSIVE Join(_, _)
\* sep.join(parts)
Join(sep, parts) ==
    IF parts = <<>> THEN <<>>
    ELSE IF Len(parts) = 1 THEN parts[1]
    ELSE parts[1] \o sep \o Join(sep, Tail(parts))

---------------------------------------------------------------------------
(* make_ident, is_ident                                                    *)

IsLower(c) == c \in 97..122
IsUpper(c) == c \in 65..90
IsDigit(c) == c \in 48..57
\* the character class [a-zA-Z0-9_]
IsSafeChar(c) == IsLower(c) \/ IsUpper(c) \/ IsDigit(c) \/ c = 95

\* str.isnumeric() on one character: the ASCII digits, and of the characters
\* outside ASCII the ones the model draws inputs from (ARABIC-INDIC DIGIT
\* THREE, U+0663).
IsNumeric(c) == IsDigit(c) \/ c = 1635

\* IDENT_RE.fullmatch(name): [a-zA-Z_][a-zA-Z0-9_]*
is_ident(name) ==
    /\ Len(name) >= 1
    /\ IsLower(name[1]) \/ IsUpper(name[1]) \/ name[1] = 95
    /\ \A i \in 2..Len(name) : IsSafeChar(name[i])

\* UNSAFE_CHAR_RE.sub('_', name)
SubUnsafe(name) == [i \in 1..Len(name) |-> IF IsSafeChar(name[i]) THEN name[i] ELSE 95]

RECURSIVE SubMultiUnderscore(_)
\* MULTI_UNDERSCORE_RE.sub('_', name): every maximal run of '_' becomes one '_'
SubMultiUnderscore(name) ==
    IF Len(name) <= 1 THEN name
    ELSE IF name[1] = 95 /\ name[2] = 95 THEN SubMultiUnderscore(Tail(name))
    ELSE <<name[1]>> \o SubMultiUnderscore(Tail(name))

\* a mutant of make_ident: the digit test of the last step is left out
make_ident_NoDigitPrefix(components) ==
    LET n1 == SubMultiUnderscore(SubUnsafe(Join(<<95>>, components)))
        n2 == IF n1 # <<>> /\ n1[Len(n1)] = 95 THEN SubSeq(n1, 1, Len(n1) - 1) ELSE n1
    IN  IF n2 = <<>> THEN <<95>> \o n2 ELSE n2

make_ident(components) ==
    LET n0 == Join(<<95>>, components)
        n1 == SubMultiUnderscore(SubUnsafe(n0))
        n2 == IF n1 # <<>> /\ n1[Len(n1)] = 95 THEN SubSeq(n1, 1, Len(n1) - 1) ELSE n1
    IN  IF n2 = <<>> \/ IsNumeric(n2[1]) THEN <<95>> \o n2 ELSE n2

---------------------------------------------------------------------------
(* make_string                                                             *)

HexDigit(d) == IF d < 10 THEN 48 + d ELSE 55 + d

RECURSIVE HexDigits(_)
\* the hexadecimal digits of n, upper case, no padding ('0' for 0)
HexDigits(n) ==
    IF n < 16 THEN <<HexDigit(n)>> ELSE HexDigits(n \div 16) \o <<HexDigit(n % 16)>>

RECURSIVE PadZero(_, _)
PadZero(s, width) == IF Len(s) >= width THEN s ELSE PadZero(<<48>> \o s, width)

\* f'{oc:04X}'
Hex04X(oc) == PadZero(HexDigits(oc), 4)

\* escape(c) of make_string
escape(c) ==
    IF (c >= 32 /\ c <= 126) \/ c > 65535 THEN <<c>>
    ELSE IF c = 8 THEN <<92, 98>>       \* '\\b'
    ELSE IF c = 12 THEN <<92, 102>>     \* '\\f'
    ELSE IF c = 10 THEN <<92, 110>>     \* '\\n'
    ELSE IF c = 13 THEN <<92, 114>>     \* '\\r'
    ELSE IF c = 9 THEN <<92, 116>>      \* '\\t'
    ELSE <<92, 117>> \o Hex04X(c)       \* f'\\u{oc:04X}'

make_string(contents) ==
    <<34>> \o Concat([i \in 1..Len(contents) |-> escape(contents[i])]) \o <<34>>

---------------------------------------------------------------------------
(* Decoded JSON values.  A value is a record [t, v]: t names the Python     *)
(* type json.loads gives it, v is the payload (a mapping is the sequence of *)
(* its <<key, value>> items in input order, as a Python dict keeps them).   *)

JNull == [t |-> "null", v |-> 0]
JBool(b) == [t |-> "bool", v |-> b]
JInt(n) == [t |-> "int", v |-> n]
JStr(s) == [t |-> "str", v |-> s]
JList(elems) == [t |-> "list", v |-> elems]
JDict(items) == [t |-> "dict", v |-> items]

\* isinstance(value, typ) for typ among int, str, list, dict: bool is a
\* subclass of int in Python
IsInstance(value, typ) == value.t = typ \/ (typ = "int" /\ value.t = "bool")

\* list(obj) of a dict: its keys in order
Keys(items) == [i \in 1..Len(items) |-> items[i][1]]
HasKey(items, key) == \E i \in 1..Len(items) : items[i][1] = key
\* obj[key]
Get(items, key) == items[CHOOSE i \in 1..Len(items) : items[i][1] = key][2]

RECURSIVE Remove(_, _)
\* the items of obj after del obj[key]
Remove(items, key) ==
    IF items = <<>> THEN <<>>
    ELSE IF items[1][1] = key THEN Tail(items)
    ELSE <<items[1]>> \o Remove(Tail(items), key)

---------------------------------------------------------------------------
(* Exceptions.  exc is the Python exception type, kind the failure of the   *)
(* design's taxonomy that the message states, key/keys what the message     *)
(* names.                                                                   *)

NoExc == [exc |-> "none", kind |-> "none", key |-> <<>>, keys |-> <<>>]
Exc(exc, kind, key, keys) == [exc |-> exc, kind |-> kind, key |-> key, keys |-> keys]

---------------------------------------------------------------------------
(* MessageUnpacker                                                          *)

\* the class attribute MessageUnpacker.Missing, the default of pop's default
Missing == [t |-> "Missing", v |-> 0]

\* a mutant of pop: the isinstance test is applied to a value found under the
\* key only
pop_DefaultUnchecked(obj, key, typ, default) ==
    LET present == HasKey(obj, key)
        value == IF present THEN Get(obj, key) ELSE default
        obj2 == IF present THEN Remove(obj, key) ELSE obj
    IN  IF value.t = "Missing"
        THEN [obj |-> obj2, raised |-> Exc("KeyError", "MissingField", key, <<>>), ret |-> Missing]
        ELSE IF present /\ ~IsInstance(value, typ)
        THEN [obj |-> obj2, raised |-> Exc("KeyError", "TypeMismatch", key, <<>>), ret |-> Missing]
        ELSE [obj |-> obj2, raised |-> NoExc, ret |-> value]

\* MessageUnpacker.pop(key, typ, default) on self.obj = obj: the dict after
\* the call, the exception raised (NoExc: none) and the value returned
pop(obj, key, typ, default) ==
    LET present == HasKey(obj, key)
        \* value = self.obj.pop(key, default)
        value == IF present THEN Get(obj, key) ELSE default
        obj2 == IF present THEN Remove(obj, key) ELSE obj
    IN  IF value.t = "Missing"
        THEN [obj |-> obj2, raised |-> Exc("KeyError", "MissingField", key, <<>>), ret |-> Missing]
        ELSE IF ~IsInstance(value, typ)
        THEN [obj |-> obj2, raised |-> Exc("KeyError", "TypeMismatch", key, <<>>), ret |-> Missing]
        ELSE [obj |-> obj2, raised |-> NoExc, ret |-> value]

\* MessageUnpacker.__exit__ on self.obj = obj, the with-block's body having
\* ended with the exception pending (NoExc: normally): the exception the
\* with statement ends with.  An exception raised by __exit__ replaces the
\* pending one; __exit__ returning None lets the pending one propagate.
MessageUnpacker_exit(obj, pending) ==
    IF obj # <<>>
    THEN Exc("ValueError", "UnexpectedFields", <<>>, Keys(obj))
    ELSE pending

---------------------------------------------------------------------------
(* OneOfMessageUnpacker                                                     *)

\* OneOfMessageUnpacker.__init__(err_ctxt, obj)
OneOf_init(obj) ==
    IF Len(obj) # 1
    THEN [raised |-> Exc("ValueError", "MalformedOneof", <<>>, <<>>),
          self |-> [key |-> <<>>, val |-> JNull, matched |-> FALSE]]
    ELSE [raised |-> NoExc,
          self |-> [key |-> obj[1][1], val |-> obj[1][2], matched |-> FALSE]]

\* a mutant of handle: a match is returned and not recorded
handle_NoMark(self, key) == [self |-> self, ret |-> (self.key = key)]

\* OneOfMessageUnpacker.handle(key)
handle(self, key) ==
    LET match == (self.key = key)
    IN  [self |-> IF match THEN [self EXCEPT !.matched = TRUE] ELSE self,
         ret |-> match]

\* OneOfMessageUnpacker.__exit__, the body having ended with pending
OneOf_exit(self, pending) ==
    IF ~self.matched
    THEN Exc("ValueError", "UnknownVariant", self.key, <<>>)
    ELSE pending

---------------------------------------------------------------------------
(* uniquify                                                                 *)

RECURSIVE DecDigits(_)
\* str(n) for n >= 0
DecDigits(n) ==
    IF n < 10 THEN <<48 + n>> ELSE DecDigits(n \div 10) \o <<48 + (n % 10)>>

\* str(n) of an int
IntStr(n) == IF n < 0 THEN <<45>> \o DecDigits(-n) ELSE DecDigits(n)

RECURSIVE uniquify_loop(_, _, _)
\* the while-loop of uniquify from i on: the first i with name_i unused
uniquify_loop(name, i, used) ==
    LET uniquified == name \o <<95>> \o IntStr(i)
    IN  IF uniquified \notin used
        THEN [ret |-> uniquified, used |-> used \cup {uniquified}]
        ELSE uniquify_loop(name, i + 1, used)

\* a mutant of uniquify: a suffixed name is returned and not added to the set
uniquify_SuffixedNotAdded(name, used) ==
    IF name \notin used
    THEN [ret |-> name, used |-> used \cup {name}]
    ELSE [ret |-> uniquify_loop(name, 2, used).ret, used |-> used]

\* uniquify(name) with used_names = used: the name returned and used_names
\* after the call
uniquify(name, used) ==
    IF name \notin used
    THEN [ret |-> name, used |-> used \cup {name}]
    ELSE uniquify_loop(name, 2, used)

---------------------------------------------------------------------------
(* json.dumps of a leaf, and of a value with indent=2                       *)

RECURSIVE HexDigitsLower(_)
HexDigitsLower(n) ==
    LET d(k) == IF k < 10 THEN 48 + k ELSE 87 + k
    IN  IF n < 16 THEN <<d(n)>> ELSE HexDigitsLower(n \div 16) \o <<d(n % 16)>>

\* '\\u{0:04x}'.format(n)
JsonU(n) == <<92, 117>> \o PadZero(HexDigitsLower(n), 4)

\* json.encoder.py_encode_basestring_ascii on one character: '"' and '\'
\* get a backslash, the five short escapes, \uxxxx for every other character
\* outside ' '..'~', as a surrogate pair above U+FFFF
json_escape(c) ==
    IF c = 34 THEN <<92, 34>>
    ELSE IF c = 92 THEN <<92, 92>>
    ELSE IF c >= 32 /\ c <= 126 THEN <<c>>
    ELSE IF c = 8 THEN <<92, 98>>
    ELSE IF c = 12 THEN <<92, 102>>
    ELSE IF c = 10 THEN <<92, 110>>
    ELSE IF c = 13 THEN <<92, 114>>
    ELSE IF c = 9 THEN <<92, 116>>
    ELSE IF c < 65536 THEN JsonU(c)
    ELSE JsonU(55296 + (((c - 65536) \div 1024) % 1024)) \o JsonU(56320 + ((c - 65536) % 1024))

json_string(s) == <<34>> \o Concat([i \in 1..Len(s) |-> json_escape(s[i])]) \o <<34>>

\* json.dumps(node) for a node that is neither a dict nor a list
json_dumps_leaf(node) ==
    IF node.t = "null" THEN <<110, 117, 108, 108>>               \* 'null'
    ELSE IF node.t = "bool"
    THEN IF node.v THEN <<116, 114, 117, 101>>                     \* 'true'
         ELSE <<102, 97, 108, 115, 101>>                           \* 'false'
    ELSE IF node.t = "int" THEN IntStr(node.v)
    ELSE json_string(node.v)

RECURSIVE json_dumps_indent(_, _)
\* json.dumps(node, indent=2), the text of a node met at indentation cur
json_dumps_indent(node, cur) ==
    LET inner == cur \o <<32, 32>>
    IN  IF node.t = "dict"
        THEN IF node.v = <<>> THEN <<123, 125>>                    \* '{}'
             ELSE <<123, 10>>
                  \o Join(<<44, 10>>,
                          [i \in 1..Len(node.v) |->
                              inner \o json_string(node.v[i][1]) \o <<58, 32>>
                              \o json_dumps_indent(node.v[i][2], inner)])
                  \o <<10>> \o cur \o <<125>>
        ELSE IF node.t = "list"
        THEN IF node.v = <<>> THEN <<91, 93>>                      \* '[]'
             ELSE <<91, 10>>
                  \o Join(<<44, 10>>,
                          [i \in 1..Len(node.v) |->
                              inner \o json_dumps_indent(node.v[i], inner)])
                  \o <<10>> \o cur \o <<93>>
        ELSE json_dumps_leaf(node)

---------------------------------------------------------------------------
(* The four lookup tables: functions from anchors to names.                 *)

EmptyLookup == [a \in {} |-> <<>>]
\* lookup[anchor] = ref
LookupSet(lookup, anchor, ref) ==
    [a \in DOMAIN lookup \cup {anchor} |-> IF a = anchor THEN ref ELSE lookup[a]]

\* the int an int or bool value is as a dict key or in a comparison
\* (True == 1, False == 0)
IntOf(value) == IF value.t = "bool" THEN (IF value.v THEN 1 ELSE 0) ELSE value.v

\* str(value) of an int or a bool
PyStr(value) ==
    IF value.t = "bool"
    THEN IF value.v THEN <<84, 114, 117, 101>>                     \* 'True'
         ELSE <<70, 97, 108, 115, 101>>                            \* 'False'
    ELSE IntStr(value.v)

\* lookup.get(value, default)
LookupGet(lookup, value, default) ==
    IF IntOf(value) \in DOMAIN lookup THEN lookup[IntOf(value)] ELSE default

---------------------------------------------------------------------------
(* emit_raw_json and its dfs_helper.  The state the recursion writes        *)
(* (output, used_names) is threaded through: every operator takes it and    *)
(* returns it with the text.                                                *)

K_functionReference == <<102, 117, 110, 99, 116, 105, 111, 110, 82, 101, 102, 101, 114, 101, 110, 99, 101>>
K_comparisonFunctionReference == <<99, 111, 109, 112, 97, 114, 105, 115, 111, 110, 70, 117, 110, 99, 116, 105, 111, 110, 82, 101, 102, 101, 114, 101, 110, 99, 101>>
K_userDefinedTypeReference == <<117, 115, 101, 114, 68, 101, 102, 105, 110, 101, 100, 84, 121, 112, 101, 82, 101, 102, 101, 114, 101, 110, 99, 101>>
K_typeVariationReference == <<116, 121, 112, 101, 86, 97, 114, 105, 97, 116, 105, 111, 110, 82, 101, 102, 101, 114, 101, 110, 99, 101>>
K_input == <<105, 110, 112, 117, 116>>
S_unknown == <<117, 110, 107, 110, 111, 119, 110>>

\* the behavior tuple of dfs_helper for one item: its kind, and for a
\* subtree the name component, for an extension_ref the table
behavior(key, val, tabs) ==
    IF key = K_functionReference \/ key = K_comparisonFunctionReference
    THEN [kind |-> "extension_ref", lookup |-> tabs.fn, name |-> <<>>]
    ELSE IF key = K_userDefinedTypeReference
    THEN [kind |-> "extension_ref", lookup |-> tabs.typ, name |-> <<>>]
    ELSE IF key = K_typeVariationReference
    THEN [kind |-> "extension_ref", lookup |-> tabs.tv, name |-> <<>>]
    ELSE IF key = K_input
    THEN [kind |-> "subtree", lookup |-> EmptyLookup,
          \* next(iter(val)) if isinstance(val, dict) and val else 'unknown'
          name |-> IF val.t = "dict" /\ val.v # <<>> THEN val.v[1][1] ELSE S_unknown]
    ELSE [kind |-> "recurse", lookup |-> EmptyLookup, name |-> <<>>]

\* output.append(f'raw {subref} = {subtree};\n\n')
RawStatement(ref, text) ==
    <<114, 97, 119, 32>> \o ref \o <<32, 61, 32>> \o text \o <<59, 10, 10>>

\* lines 241-242 with subref = u.ret: the statement is appended to the output
\* as dfs_helper(val) left it, the reference is the text of the value
HoistAs(sub, u) ==
    [text |-> u.ret, out |-> Append(sub.out, RawStatement(u.ret, sub.text)), used |-> u.used]

\* lines 240-242 of the subtree branch, sub being the result of line 239
Hoist(sub, ref, name) == HoistAs(sub, uniquify(make_ident(<<ref, name>>), sub.used))

\* a mutant of the branch test: a subtree is hoisted only when it is not empty
IsSubtree_NonEmptyOnly(b, val) == b.kind = "subtree" /\ val.t = "dict" /\ val.v # <<>>

\* behavior[0] == 'subtree' and isinstance(val, dict)
IsSubtree(b, val) == b.kind = "subtree" /\ val.t = "dict"

RECURSIVE dfs_helper(_, _, _, _, _, _)
RECURSIVE dfs_value(_, _, _, _, _, _, _)
RECURSIVE dfs_dict(_, _, _, _, _, _, _, _)
RECURSIVE dfs_list(_, _, _, _, _, _, _, _)

\* lines 234-244: the text of the value of one item with behavior b
dfs_value(b, val, indent, ref, tabs, out, used) ==
    IF b.kind = "extension_ref" /\ IsInstance(val, "int")
    THEN [text |-> LookupGet(b.lookup, val, PyStr(val)), out |-> out, used |-> used]
    ELSE IF IsSubtree(b, val)
    THEN Hoist(dfs_helper(val, <<>>, ref, tabs, out, used), ref, b.name)
    ELSE dfs_helper(val, indent \o <<32, 32>>, ref, tabs, out, used)

\* lines 210-215: what an item appends before its value
ItemHead(k, indent, key) ==
    (IF k = 1 THEN <<>> ELSE <<44>>)
    \o <<10>> \o indent \o <<32, 32>> \o make_string(key) \o <<58, 32>>

\* the loop goes on after item k, whose value gave r
dfs_dict_next(items, k, indent, ref, tabs, text, r) ==
    dfs_dict(items, k + 1, indent, ref, tabs, text \o r.text, r.out, r.used)

\* the for-loop over node.items() from item k on; text is ''.join(retval)
dfs_dict(items, k, indent, ref, tabs, text, out, used) ==
    IF k > Len(items)
    THEN [text |-> text \o <<10>> \o indent \o <<125>>, out |-> out, used |-> used]
    ELSE dfs_dict_next(items, k, indent, ref, tabs,
                       text \o ItemHead(k, indent, items[k][1]),
                       dfs_value(behavior(items[k][1], items[k][2], tabs), items[k][2],
                                 indent, ref, tabs, out, used))

\* the loop goes on after element k, which gave r
dfs_list_next(elems, k, indent, ref, tabs, text, r) ==
    dfs_list(elems, k + 1, indent, ref, tabs, text \o r.text, r.out, r.used)

\* the for-loop over a list node from element k on
dfs_list(elems, k, indent, ref, tabs, text, out, used) ==
    IF k > Len(elems)
    THEN [text |-> text \o <<10>> \o indent \o <<93>>, out |-> out, used |-> used]
    ELSE dfs_list_next(elems, k, indent, ref, tabs,
                       text \o (IF k = 1 THEN <<>> ELSE <<44>>) \o <<10>> \o indent \o <<32, 32>>,
                       dfs_helper(elems[k], indent \o <<32, 32>>, ref, tabs, out, used))

\* dfs_helper(node, indent) inside emit_raw_json(ref, data), with output = out
\* and used_names = used: the text returned, and output and used_names after
dfs_helper(node, indent, ref, tabs, out, used) ==
    IF node.t = "dict" THEN dfs_dict(node.v, 1, indent, ref, tabs, <<123>>, out, used)
    ELSE IF node.t = "list" THEN dfs_list(node.v, 1, indent, ref, tabs, <<91>>, out, used)
    ELSE [text |-> json_dumps_leaf(node), out |-> out, used |-> used]

\* line 265 after line 264 gave root
AppendRaw(root, ref) ==
    [out |-> Append(root.out, RawStatement(ref, root.text)), used |-> root.used]

\* the statement of line 265 put where the output stood when emit_raw_json
\* was called, before the statements the descent appended
InsertRaw(root, ref, out) ==
    [out |-> out \o <<RawStatement(ref, root.text)>> \o SubSeq(root.out, Len(out) + 1, Len(root.out)),
     used |-> root.used]

\* a mutant of emit_raw_json: the statement of the tree precedes the
\* statements of its hoisted subtrees
emit_raw_json_RootFirst(ref, data, tabs, out, used) ==
    InsertRaw(dfs_helper(data, <<>>, ref, tabs, out, used), ref, out)

\* emit_raw_json(ref, data): output and used_names after the call
emit_raw_json(ref, data, tabs, out, used) ==
    AppendRaw(dfs_helper(data, <<>>, ref, tabs, out, used), ref)

---------------------------------------------------------------------------
(* The keys and words of disas().                                           *)

K_extensionUris == <<101, 120, 116, 101, 110, 115, 105, 111, 110, 85, 114, 105, 115>>
K_extensions == <<101, 120, 116, 101, 110, 115, 105, 111, 110, 115>>
K_relations == <<114, 101, 108, 97, 116, 105, 111, 110, 115>>
K_advancedExtensions == <<97, 100, 118, 97, 110, 99, 101, 100, 69, 120, 116, 101, 110, 115, 105, 111, 110, 115>>
K_expectedTypeUrls == <<101, 120, 112, 101, 99, 116, 101, 100, 84, 121, 112, 101, 85, 114, 108, 115>>
K_enhancement == <<101, 110, 104, 97, 110, 99, 101, 109, 101, 110, 116>>
K_optimization == <<111, 112, 116, 105, 109, 105, 122, 97, 116, 105, 111, 110>>
K_extensionUriAnchor == <<101, 120, 116, 101, 110, 115, 105, 111, 110, 85, 114, 105, 65, 110, 99, 104, 111, 114>>
K_uri == <<117, 114, 105>>
K_extensionUriReference == <<101, 120, 116, 101, 110, 115, 105, 111, 110, 85, 114, 105, 82, 101, 102, 101, 114, 101, 110, 99, 101>>
K_functionAnchor == <<102, 117, 110, 99, 116, 105, 111, 110, 65, 110, 99, 104, 111, 114>>
K_typeAnchor == <<116, 121, 112, 101, 65, 110, 99, 104, 111, 114>>
K_typeVariationAnchor == <<116, 121, 112, 101, 86, 97, 114, 105, 97, 116, 105, 111, 110, 65, 110, 99, 104, 111, 114>>
K_name == <<110, 97, 109, 101>>
K_extensionFunction == <<101, 120, 116, 101, 110, 115, 105, 111, 110, 70, 117, 110, 99, 116, 105, 111, 110>>
K_extensionType == <<101, 120, 116, 101, 110, 115, 105, 111, 110, 84, 121, 112, 101>>
K_extensionTypeVariation == <<101, 120, 116, 101, 110, 115, 105, 111, 110, 84, 121, 112, 101, 86, 97, 114, 105, 97, 116, 105, 111, 110>>
K_root == <<114, 111, 111, 116>>
K_rel == <<114, 101, 108>>
K_names == <<110, 97, 109, 101, 115>>

S_function == <<102, 117, 110, 99, 116, 105, 111, 110>>
S_type == <<116, 121, 112, 101>>
S_type_variation == <<116, 121, 112, 101, 95, 118, 97, 114, 105, 97, 116, 105, 111, 110>>
S_fn == <<102, 110>>
S_typ == <<116, 121, 112>>
S_tv == <<116, 118>>

---------------------------------------------------------------------------
(* The with-blocks of disas().                                              *)

\* one pop call of a with-block's body
Call(key, typ, default) == [key |-> key, typ |-> typ, default |-> default]

RECURSIVE RunPops(_, _, _)

\* the body goes on after a pop that gave r
RunPopsNext(r, calls, rets) ==
    IF r.raised # NoExc
    THEN [obj |-> r.obj, raised |-> r.raised, rets |-> rets]
    ELSE RunPops(r.obj, Tail(calls), Append(rets, r.ret))

\* the pops of a with-block's body run in order on obj until one raises:
\* obj after them, the exception (NoExc: none) and the values returned
RunPops(obj, calls, rets) ==
    IF calls = <<>> THEN [obj |-> obj, raised |-> NoExc, rets |-> rets]
    ELSE RunPopsNext(pop(obj, calls[1].key, calls[1].typ, calls[1].default), calls, rets)

\* __exit__ after a body of pops that ended as r
UnpackExit(r) == [raised |-> MessageUnpacker_exit(r.obj, r.raised), rets |-> r.rets]

\* with MessageUnpacker(ctxt, obj) as u: <calls>: the exception the with
\* statement ends with and the values popped
Unpack(obj, calls) == UnpackExit(RunPops(obj, calls, <<>>))

\* lines 91-96
PlanBody == <<Call(K_extensionUris, "list", JList(<<>>)),
              Call(K_extensions, "list", JList(<<>>)),
              Call(K_relations, "list", JList(<<>>)),
              Call(K_advancedExtensions, "dict", JDict(<<>>)),
              Call(K_expectedTypeUrls, "list", JList(<<>>))>>
\* lines 100-102
AdvancedBody == <<Call(K_enhancement, "dict", JDict(<<>>)),
                  Call(K_optimization, "dict", JDict(<<>>))>>
\* lines 148-151, 156-159, 164-167: anchorKey is functionAnchor, typeAnchor
\* or typeVariationAnchor
ExtensionBody(anchorKey) == <<Call(K_extensionUriReference, "int", JInt(0)),
                              Call(anchorKey, "int", JInt(0)),
                              Call(K_name, "str", Missing)>>
\* lines 271-273
RootBody == <<Call(K_input, "int", JInt(0)), Call(K_names, "list", JInt(0))>>

---------------------------------------------------------------------------
(* Lines 133-142: one iteration of the loop over extension_uris.            *)

\* The with statement of line 134 is given the list extension_uris, not its
\* element extension_uri.  u.pop calls list.pop(key, default), which raises
\* TypeError (list.pop takes at most one argument); __exit__ then finds the
\* list non-empty and builds its message with ', '.join(self.obj), which
\* raises TypeError unless every element is a string, and raises ValueError
\* otherwise.  Lines 136-142 are never reached.
UriIteration(uris) ==
    IF \E i \in 1..Len(uris) : uris[i].t # "str"
    THEN Exc("TypeError", "none", <<>>, <<>>)
    ELSE Exc("ValueError", "UnexpectedFields", <<>>, [i \in 1..Len(uris) |-> uris[i].v])

---------------------------------------------------------------------------
(* Lines 145-188: one iteration of the loop over extensions.                *)

\* the variants of the if-chain of lines 147-170
ExtensionVariants ==
    <<[tag |-> K_extensionFunction, anchorKey |-> K_functionAnchor,
       decl |-> S_function, prefix |-> S_fn, table |-> "fn"],
      [tag |-> K_extensionType, anchorKey |-> K_typeAnchor,
       decl |-> S_type, prefix |-> S_typ, table |-> "typ"],
      [tag |-> K_extensionTypeVariation, anchorKey |-> K_typeVariationAnchor,
       decl |-> S_type_variation, prefix |-> S_tv, table |-> "tv"]>>

\* a mutant of lines 173-178: the name is taken as it is
RefName_Identity(name) == name

\* the dict of lines 173-178, .get(name, name)
RefName(name) ==
    IF name = <<43>> THEN <<97, 100, 100>>             \* '+': 'add'
    ELSE IF name = <<45>> THEN <<115, 117, 98>>        \* '-': 'sub'
    ELSE IF name = <<42>> THEN <<109, 117, 108, 116>>  \* '*': 'mult'
    ELSE IF name = <<47>> THEN <<100, 105, 118>>       \* '/': 'div'
    ELSE name

\* f'{decl} {ref} = {uri_ref}{name} = {anchor};\n', lines 180-187
Declaration(variant, ref, uri_ref, anchor, name, tabs) ==
    variant.decl \o <<32>> \o ref \o <<32, 61, 32>>
    \o (IF IntOf(uri_ref) = 0 THEN <<>>
        ELSE LookupGet(tabs.uri, uri_ref, PyStr(uri_ref)) \o <<58, 58>>)
    \o (IF is_ident(name) THEN name ELSE make_string(name))
    \o <<32, 61, 32>> \o PyStr(anchor) \o <<59, 10>>

\* lines 180-188 with ref = u.ret
DeclareAs(u, variant, uri_ref, anchor, name, tabs, out) ==
    [raised |-> NoExc,
     tabs |-> [tabs EXCEPT ![variant.table] =
                   LookupSet(tabs[variant.table], IntOf(anchor), u.ret)],
     out |-> Append(out, Declaration(variant, u.ret, uri_ref, anchor, name, tabs)),
     used |-> u.used]

\* lines 171-188 for one unpacked declaration
Declare(variant, uri_ref, anchor, name, tabs, out, used) ==
    IF IntOf(anchor) < 0
    THEN [raised |-> Exc("TypeError", "IllegalAnchor", <<>>, <<>>),
          tabs |-> tabs, out |-> out, used |-> used]
    ELSE DeclareAs(uniquify(make_ident(<<variant.prefix, RefName(name)>>), used),
                   variant, uri_ref, anchor, name, tabs, out)

\* the with-block of lines 148, 156 or 164 has ended as v, the one of line
\* 146 ends as left
ExtensionUnpacked(v, left, variant, tabs, out, used) ==
    IF left # NoExc
    THEN [raised |-> left, tabs |-> tabs, out |-> out, used |-> used]
    ELSE Declare(variant, v.rets[1], v.rets[2], v.rets[3].v, tabs, out, used)

\* the branch of the if-chain for variant, self being the unpacker after
\* handle() matched
ExtensionBranch(self, variant, tabs, out, used) ==
    ExtensionUnpacked(Unpack(self.val.v, ExtensionBody(variant.anchorKey)),
                      OneOf_exit(self, Unpack(self.val.v, ExtensionBody(variant.anchorKey)).raised),
                      variant, tabs, out, used)

\* the with-block of line 146 over the unpacker c constructed
ExtensionOf(c, matching, tabs, out, used) ==
    IF c.raised # NoExc
    THEN [raised |-> c.raised, tabs |-> tabs, out |-> out, used |-> used]
    ELSE IF matching = {}
    \* no branch of the if-chain runs; __exit__ raises
    THEN [raised |-> OneOf_exit(c.self, NoExc), tabs |-> tabs, out |-> out, used |-> used]
    ELSE ExtensionBranch(handle(c.self, ExtensionVariants[CHOOSE i \in matching : TRUE].tag).self,
                         ExtensionVariants[CHOOSE i \in matching : TRUE], tabs, out, used)

\* one iteration on the mapping extension (the payload of a variant is a
\* mapping)
ExtensionIteration(extension, tabs, out, used) ==
    ExtensionOf(OneOf_init(extension),
                {i \in 1..Len(ExtensionVariants) :
                    handle(OneOf_init(extension).self, ExtensionVariants[i].tag).ret},
                tabs, out, used)

---------------------------------------------------------------------------
(* Lines 191-201: the protobuf-level extension declarations.                *)

\* make_string(x) for a decoded JSON value x: a string is escaped; a list or
\* a dict is iterated and escape() takes ord() of each element or key, which
\* is a TypeError unless that is a string of length one; map() over anything
\* else is a TypeError
MakeStringOfValue(x) ==
    LET parts == IF x.t = "list" THEN x.v
                 ELSE IF x.t = "dict" THEN [i \in 1..Len(x.v) |-> JStr(x.v[i][1])]
                 ELSE <<>>
    IN  IF x.t = "str" THEN [raised |-> NoExc, text |-> make_string(x.v)]
        ELSE IF x.t \in {"list", "dict"}
                /\ \A i \in 1..Len(parts) : parts[i].t = "str" /\ Len(parts[i].v) = 1
        THEN [raised |-> NoExc,
              text |-> make_string([i \in 1..Len(parts) |-> parts[i].v[1]])]
        ELSE [raised |-> Exc("TypeError", "none", <<>>, <<>>), text |-> <<>>]

RECURSIVE ProtoUrls(_, _, _)

\* the loop goes on after element k, which gave m
ProtoUrlsNext(m, urls, k, out) ==
    IF m.raised # NoExc THEN [raised |-> m.raised, out |-> out]
    ELSE ProtoUrls(urls, k + 1,
             \* f'proto_extension {url};\n'
             Append(out, <<112, 114, 111, 116, 111, 95, 101, 120, 116, 101, 110,
                           115, 105, 111, 110, 32>> \o m.text \o <<59, 10>>))

\* the loop of lines 193-195 from element k on
ProtoUrls(urls, k, out) ==
    IF k > Len(urls) THEN [raised |-> NoExc, out |-> out]
    ELSE ProtoUrlsNext(MakeStringOfValue(urls[k]), urls, k, out)

\* lines 196-201, the loop of lines 193-195 having ended as u
ProtoData(u, enhancement, optimization) ==
    IF u.raised # NoExc THEN u
    ELSE [raised |-> NoExc,
          out |-> u.out
                  \* f'enhancement {data};\n'
                  \o (IF enhancement = <<>> THEN <<>>
                      ELSE <<<<101, 110, 104, 97, 110, 99, 101, 109, 101, 110, 116, 32>>
                             \o json_dumps_indent(JDict(enhancement), <<>>) \o <<59, 10>>>>)
                  \* f'optimization {data};\n'
                  \o (IF optimization = <<>> THEN <<>>
                      ELSE <<<<111, 112, 116, 105, 109, 105, 122, 97, 116, 105, 111, 110, 32>>
                             \o json_dumps_indent(JDict(optimization), <<>>) \o <<59, 10>>>>)]

ProtoExtensions(enhancement, optimization, urls, out) ==
    IF enhancement = <<>> /\ optimization = <<>> /\ urls = <<>>
    THEN [raised |-> NoExc, out |-> out]
    \* '\n// Protobuf extensions\n'
    ELSE ProtoData(ProtoUrls(urls, 1,
                       Append(out, <<10, 47, 47, 32, 80, 114, 111, 116, 111, 98, 117, 102, 32,
                                     101, 120, 116, 101, 110, 115, 105, 111, 110, 115, 10>>)),
                   enhancement, optimization)

---------------------------------------------------------------------------
(* Lines 267-287: one iteration of the loop over relations.                 *)

\* the exception the body of the with-block of line 271 ends with, the pops
\* having ended as r
RootBody2(r) ==
    IF r.raised # NoExc THEN r.raised
    ELSE IF \E i \in 1..Len(r.rets[2].v) : r.rets[2].v[i].t # "str"
    THEN Exc("TypeError", "InvalidElementType", <<>>, <<>>)
    ELSE NoExc

\* line 280, reached when the with-block of line 271 ends without an
\* exception: emit_rels is a name that is defined nowhere
RootCall(left) == IF left # NoExc THEN left ELSE Exc("NameError", "none", <<>>, <<>>)

RootExit(r) == RootCall(MessageUnpacker_exit(r.obj, RootBody2(r)))

\* the root branch, lines 271-280, on the mapping val: the exception it ends
\* with.  The pops ask for an int under 'input' and give 'names' the default 0.
RootBranch(val) == RootExit(RunPops(val, RootBody, <<>>))

\* a mutant of line 287: the parentheses of line 279 are put around names
\* of either branch
ExecuteStatement_Parens(ref, names) ==
    <<101, 120, 101, 99, 117, 116, 101, 32>> \o ref \o <<40>> \o names \o <<41, 59, 10>>

\* f'execute {ref}{names};\n'
ExecuteStatement(ref, names) ==
    <<101, 120, 101, 99, 117, 116, 101, 32>> \o ref \o names \o <<59, 10>>

\* line 287 after line 286 gave e
AppendExecute(e, ref, names) ==
    [out |-> Append(e.out, ExecuteStatement(ref, names)), used |-> e.used]

\* a mutant of the statements of lines 286-287: execute is appended first
EmitRelation_ExecuteFirst(ref, rel, names, tabs, out, used) ==
    emit_raw_json(ref, rel, tabs, Append(out, ExecuteStatement(ref, names)), used)

\* lines 286-287: emit_raw_json(ref, rel); output.append(f'execute {ref}{names};\n')
EmitRelation(ref, rel, names, tabs, out, used) ==
    AppendExecute(emit_raw_json(ref, rel, tabs, out, used), ref, names)

\* the with-block of line 269 ends after lines 285-287 gave e
RelationDone(e, left) == [raised |-> left, out |-> e.out, used |-> e.used]

\* lines 282-287 with ref = u.ret
RelBranch(u, self, tabs, out) ==
    RelationDone(EmitRelation(u.ret, self.val, <<>>, tabs, out, u.used), OneOf_exit(self, NoExc))

\* the with-block of line 269 over the unpacker c constructed
RelationOf(c, index, tabs, out, used) ==
    IF c.raised # NoExc THEN [raised |-> c.raised, out |-> out, used |-> used]
    ELSE IF handle(c.self, K_root).ret
    THEN [raised |-> OneOf_exit(handle(c.self, K_root).self, RootBranch(c.self.val.v)),
          out |-> out, used |-> used]
    ELSE IF handle(c.self, K_rel).ret
    THEN RelBranch(uniquify(make_ident(<<K_rel, IntStr(index)>>), used),
                   handle(c.self, K_rel).self, tabs,
                   \* f'\n// Relation {index}\n'
                   Append(out, <<10, 47, 47, 32, 82, 101, 108, 97, 116, 105, 111, 110, 32>>
                               \o IntStr(index) \o <<10>>))
    \* neither branch runs: whatever lines 285-287 do with rel and names
    \* unbound or left over from an earlier iteration, __exit__ replaces it
    ELSE [raised |-> OneOf_exit(c.self, NoExc), out |-> out, used |-> used]

\* one iteration on the mapping relation at position index (the payload of
\* root is a mapping); when it raises, out and used are as they were
RelationIteration(index, relation, tabs, out, used) ==
    RelationOf(OneOf_init(relation), index, tabs, out, used)

---------------------------------------------------------------------------
(* The state of each part when a specification does not run it.             *)

NoSelf == [key |-> <<>>, val |-> JNull, matched |-> FALSE]
NoCall == [called |-> FALSE, key |-> <<>>, typ |-> "none", default |-> Missing,
           before |-> <<>>, after |-> <<>>, raised |-> NoExc, ret |-> Missing]

FmtIdle == fin = <<>> /\ fout = <<>> /\ fout2 = <<>> /\ fpc = "idle"
UnpIdle ==
    /\ u_obj = <<>> /\ u_body = <<>> /\ u_pc = "idle"
    /\ u_pending = NoExc /\ u_err = NoExc /\ u_last = NoCall
OneOfIdle ==
    /\ o_obj = <<>> /\ o_self = NoSelf /\ o_pc = "idle" /\ o_err = NoExc /\ o_calls = <<>>
UqIdle == uq_calls = <<>>
\* lines 106, 123, 127-130: the containers disas() creates
DisasFresh ==
    /\ used_names = {} /\ output = <<>>
    /\ uri_lookup = EmptyLookup /\ typ_lookup = EmptyLookup
    /\ tv_lookup = EmptyLookup /\ fn_lookup = EmptyLookup
DisasIdle ==
    /\ plan = <<>> /\ pc = "idle" /\ idx = 0
    /\ extension_uris = <<>> /\ extensions = <<>> /\ relations = <<>>
    /\ toplevel_enhancement = <<>> /\ toplevel_optimization = <<>>
    /\ expected_type_urls = <<>>
    /\ DisasFresh /\ err = NoExc /\ result = <<>>

---------------------------------------------------------------------------
(* Calls of make_ident and make_string on drawn inputs.                     *)

\* a, Z, _, 1, -, U+0663
IdentAlphabet == {97, 90, 95, 49, 45, 1635}
\* a, n, ", \, LF, U+0001, DEL, U+00E9, U+1F600
StringAlphabet == {97, 110, 34, 92, 10, 1, 127, 233, 128512}

InitIdent ==
    /\ fin \in StringsUpTo(IdentAlphabet, MaxIdentLen)
    /\ fout = <<>> /\ fout2 = <<>> /\ fpc = "start"
    /\ UnpIdle /\ OneOfIdle /\ UqIdle /\ DisasIdle

CallMakeIdent ==
    /\ fpc = "start"
    /\ fout' = make_ident(<<fin>>)
    /\ fpc' = "once"
    /\ UNCHANGED <<fin, fout2, unpVars, oneofVars, uq_calls, used_names, disasVars>>

CallMakeIdentAgain ==
    /\ fpc = "once"
    /\ fout2' = make_ident(<<fout>>)
    /\ fpc' = "twice"
    /\ UNCHANGED <<fin, fout, unpVars, oneofVars, uq_calls, used_names, disasVars>>

NextIdent == CallMakeIdent \/ CallMakeIdentAgain

SpecIdent == InitIdent /\ [][NextIdent]_vars

InitString ==
    /\ fin \in StringsUpTo(StringAlphabet, MaxStrLen)
    /\ fout = <<>> /\ fout2 = <<>> /\ fpc = "start"
    /\ UnpIdle /\ OneOfIdle /\ UqIdle /\ DisasIdle

CallMakeString ==
    /\ fpc = "start"
    /\ fout' = make_string(fin)
    /\ fpc' = "once"
    /\ UNCHANGED <<fin, fout2, unpVars, oneofVars, uq_calls, used_names, disasVars>>

NextString == CallMakeString

SpecString == InitString /\ [][NextString]_vars

---------------------------------------------------------------------------
(* A with-block over a MessageUnpacker: a mapping and a body of pops.       *)

S_a == <<97>>
S_b == <<98>>
S_x == <<120>>

UKeys == {K_functionAnchor, K_name, K_input, K_names}
UVals == {JInt(1), JBool(TRUE), JStr(S_x), JList(<<JStr(S_a)>>)}
UTypes == {"int", "str", "list", "dict"}
UDefaults == {Missing, JInt(0), JList(<<>>)}

\* the mappings of at most n items over the keys K and the values V
MappingsUpTo(K, V, n) ==
    {items \in UNION {[1..k -> K \X V] : k \in 0..n} :
        \A i, j \in 1..Len(items) : i # j => items[i][1] # items[j][1]}

\* the bodies of lines 148-151 and 271-273, and every body of a single pop
UBodies ==
    {ExtensionBody(K_functionAnchor), RootBody}
    \cup {<<Call(k, t, d)>> : k \in UKeys, t \in UTypes, d \in UDefaults}

InitUnpacker ==
    /\ u_obj \in MappingsUpTo(UKeys, UVals, MaxFields)
    /\ u_body \in UBodies
    /\ u_pc = "body" /\ u_pending = NoExc /\ u_err = NoExc /\ u_last = NoCall
    /\ FmtIdle /\ OneOfIdle /\ UqIdle /\ DisasIdle

\* the next pop of the body
Pop ==
    /\ u_pc = "body"
    /\ LET c == Head(u_body)
           r == pop(u_obj, c.key, c.typ, c.default)
       IN  /\ u_obj' = r.obj
           /\ u_last' = [called |-> TRUE, key |-> c.key, typ |-> c.typ,
                         default |-> c.default, before |-> u_obj, after |-> r.obj,
                         raised |-> r.raised, ret |-> r.ret]
           /\ u_pending' = r.raised
           /\ u_body' = IF r.raised # NoExc THEN u_body ELSE Tail(u_body)
           /\ u_pc' = IF r.raised # NoExc \/ Tail(u_body) = <<>> THEN "exit" ELSE "body"
    /\ UNCHANGED <<u_err, fmtVars, oneofVars, uq_calls, used_names, disasVars>>

\* __exit__, the body having completed or raised
Exit ==
    /\ u_pc = "exit"
    /\ u_err' = MessageUnpacker_exit(u_obj, u_pending)
    /\ u_pc' = "done"
    /\ UNCHANGED <<u_obj, u_body, u_pending, u_last, fmtVars, oneofVars, uq_calls,
                   used_names, disasVars>>

NextUnpacker == Pop \/ Exit

SpecUnpacker == InitUnpacker /\ [][NextUnpacker]_vars

---------------------------------------------------------------------------
(* A with-block over a OneOfMessageUnpacker: a mapping and handle calls.    *)

OTags == {K_root, K_rel, K_name}
OVals == {JInt(1), JDict(<<>>)}

InitOneOf ==
    /\ o_obj \in MappingsUpTo(OTags, OVals, 2)
    /\ o_self = NoSelf /\ o_pc = "new" /\ o_err = NoExc /\ o_calls = <<>>
    /\ FmtIdle /\ UnpIdle /\ UqIdle /\ DisasIdle

\* OneOfMessageUnpacker(err_ctxt, obj); an exception of __init__ is raised
\* before the with-block is entered, so that __exit__ does not run
Construct ==
    /\ o_pc = "new"
    /\ LET c == OneOf_init(o_obj)
       IN  /\ o_self' = c.self
           /\ o_err' = c.raised
           /\ o_pc' = IF c.raised # NoExc THEN "done" ELSE "body"
    /\ UNCHANGED <<o_obj, o_calls, fmtVars, unpVars, uq_calls, used_names, disasVars>>

Handle ==
    /\ o_pc = "body"
    /\ Len(o_calls) < MaxHandleCalls
    /\ \E tag \in OTags :
          LET h == handle(o_self, tag)
          IN  /\ o_self' = h.self
              /\ o_calls' = Append(o_calls, [tag |-> tag, ret |-> h.ret])
    /\ UNCHANGED <<o_obj, o_pc, o_err, fmtVars, unpVars, uq_calls, used_names, disasVars>>

ExitOneOf ==
    /\ o_pc = "body"
    /\ o_err' = OneOf_exit(o_self, NoExc)
    /\ o_pc' = "done"
    /\ UNCHANGED <<o_obj, o_self, o_calls, fmtVars, unpVars, uq_calls, used_names,
                   disasVars>>

NextOneOf == Construct \/ Handle \/ ExitOneOf

SpecOneOf == InitOneOf /\ [][NextOneOf]_vars

---------------------------------------------------------------------------
(* A run's uniquify calls on drawn candidates.                              *)

\* a, a_2, a_3, b
Candidates == {<<97>>, <<97, 95, 50>>, <<97, 95, 51>>, <<98>>}

InitUniquify ==
    /\ used_names = {} /\ uq_calls = <<>>
    /\ FmtIdle /\ UnpIdle /\ OneOfIdle
    /\ plan = <<>> /\ pc = "idle" /\ idx = 0
    /\ extension_uris = <<>> /\ extensions = <<>> /\ relations = <<>>
    /\ toplevel_enhancement = <<>> /\ toplevel_optimization = <<>>
    /\ expected_type_urls = <<>>
    /\ output = <<>>
    /\ uri_lookup = EmptyLookup /\ typ_lookup = EmptyLookup
    /\ tv_lookup = EmptyLookup /\ fn_lookup = EmptyLookup
    /\ err = NoExc /\ result = <<>>

CallUniquify ==
    /\ Len(uq_calls) < MaxUniquifyCalls
    /\ \E name \in Candidates :
          LET u == uniquify(name, used_names)
          IN  /\ used_names' = u.used
              /\ uq_calls' = Append(uq_calls, [name |-> name, ret |-> u.ret,
                                               before |-> used_names])
    /\ UNCHANGED <<fmtVars, unpVars, oneofVars, disasVars>>

NextUniquify == CallUniquify

SpecUniquify == InitUniquify /\ [][NextUniquify]_vars

---------------------------------------------------------------------------
(* disas(data) on drawn plans.                                              *)

Rel(tree) == JDict(<< <<K_rel, tree>> >>)
Root(items) == JDict(<< <<K_root, JDict(items)>> >>)

TKeys == {K_input, S_a}
Leaves == {JInt(1), JDict(<<>>), JList(<<>>)}
\* the second item of a two-item mapping
SecondValues == {JDict(<<>>), JDict(<< <<K_input, JDict(<<>>)>> >>)}

RECURSIVE Trees(_)
\* the trees of depth at most n: a leaf, a mapping of one item, a list of one
\* element, or a mapping of two items of which one is under 'input'
Trees(n) ==
    IF n = 0 THEN Leaves
    ELSE LET T == Trees(n - 1)
         IN  Leaves
             \cup {JDict(<< <<k, t>> >>) : k \in TKeys, t \in T}
             \cup {JList(<<t>>) : t \in T}
             \cup {JDict(<< <<K_input, t>>, <<S_a, s>> >>) : t \in T, s \in SecondValues}
             \cup {JDict(<< <<S_a, t>>, <<K_input, s>> >>) : t \in T, s \in SecondValues}

\* a plan of one relation, of the rel variant
TreePlans == {<< <<K_relations, JList(<<Rel(t)>>)>> >> : t \in Trees(MaxDepth)}

\* the relations of the plans of several relations
RelEntries ==
    {Rel(JDict(<<>>)),
     Rel(JDict(<< <<K_input, JDict(<<>>)>> >>)),
     Rel(JDict(<< <<S_a, JDict(<< <<K_input, JDict(<< <<K_input, JDict(<<>>)>> >>)>> >>)>> >>)),
     Rel(JList(<<JDict(<< <<K_input, JDict(<< <<S_a, JStr(S_b)>> >>)>> >>), JBool(TRUE), JNull>>)),
     Rel(JDict(<< <<K_input, JDict(<< <<<<>>, JDict(<<>>)>> >>)>> >>)),         \* the key ''
     Rel(JDict(<< <<K_input, JDict(<< <<<<49>>, JInt(1)>> >>)>> >>)),           \* the key '1'
     Root(<< <<K_input, JDict(<< <<S_a, JDict(<<>>)>> >>)>>,
             <<K_names, JList(<<JStr(S_a), JStr(S_b)>>)>> >>),
     Root(<< <<K_input, JDict(<<>>)>> >>),
     Root(<< <<K_input, JInt(1)>>, <<K_names, JList(<<JStr(S_a)>>)>> >>),
     Root(<< <<K_names, JList(<<JInt(1)>>)>> >>),
     JDict(<< <<S_a, JDict(<<>>)>> >>),
     JDict(<<>>)}
RelationPlans ==
    {<< <<K_relations, JList(rs)>> >> :
        rs \in UNION {[1..k -> RelEntries] : k \in 1..MaxRelations}}

UriEntry(anchor, uri) == JDict(<< <<K_extensionUriAnchor, JInt(anchor)>>, <<K_uri, JStr(uri)>> >>)
UriEntries == {UriEntry(1, S_a), UriEntry(2, <<47, 97, 47, 98, 46, 99>>), JStr(S_x)}   \* '/a/b.c'
UriPlans ==
    {<< <<K_extensionUris, JList(us)>>, <<K_relations, JList(<<Rel(JDict(<<>>))>>)>> >> :
        us \in UNION {[1..k -> UriEntries] : k \in 1..MaxUris}}

ExtEntry(tag, anchorKey, uri_ref, anchor, name) ==
    JDict(<< <<tag, JDict(<< <<K_extensionUriReference, JInt(uri_ref)>>,
                            <<anchorKey, JInt(anchor)>>,
                            <<K_name, JStr(name)>> >>)>> >>)
ExtEntries ==
    {ExtEntry(K_extensionFunction, K_functionAnchor, 0, 0, S_a),
     ExtEntry(K_extensionFunction, K_functionAnchor, 1, 1, <<42>>),     \* '*'
     ExtEntry(K_extensionType, K_typeAnchor, 0, 1, S_a),
     ExtEntry(K_extensionTypeVariation, K_typeVariationAnchor, 0, 0, S_b),
     ExtEntry(K_extensionFunction, K_functionAnchor, 0, 2, S_a),
     ExtEntry(K_extensionFunction, K_functionAnchor, 0, -1, S_a),
     JDict(<< <<K_extensionFunction, JDict(<< <<K_name, JStr(S_a)>>, <<S_x, JInt(1)>> >>)>> >>),
     JDict(<< <<K_extensionType, JDict(<< <<K_typeAnchor, JBool(TRUE)>> >>)>> >>),
     JDict(<< <<S_x, JDict(<<>>)>> >>)}
\* a relation that refers to anchors
RefTree ==
    JDict(<< <<K_functionReference, JInt(1)>>,
             <<S_a, JList(<<JDict(<< <<K_typeVariationReference, JInt(0)>>,
                                     <<K_userDefinedTypeReference, JInt(0)>>,
                                     <<K_comparisonFunctionReference, JBool(TRUE)>>,
                                     <<K_functionReference, JStr(S_a)>> >>),
                            JDict(<< <<K_typeVariationReference, JList(<<JInt(0)>>)>>,
                                     <<K_userDefinedTypeReference,
                                       JDict(<< <<K_functionReference, JNull>> >>)>> >>)>>)>> >>)
ExtPlans ==
    {<< <<K_extensions, JList(es)>>, <<K_relations, JList(<<Rel(RefTree)>>)>> >> :
        es \in UNION {[1..k -> ExtEntries] : k \in 1..MaxExtensions}}

OtherPlans ==
    {<<>>,
     << <<S_x, JInt(1)>> >>,
     << <<K_relations, JInt(1)>> >>,
     << <<K_expectedTypeUrls, JList(<<JStr(S_a), JInt(1)>>)>> >>,
     << <<K_advancedExtensions, JDict(<< <<S_x, JInt(1)>> >>)>> >>,
     << <<K_advancedExtensions,
          JDict(<< <<K_enhancement, JDict(<< <<S_a, JList(<<JInt(1), JDict(<<>>)>>)>> >>)>>,
                   <<K_optimization, JDict(<< <<S_b, JDict(<< <<S_a, JNull>> >>)>> >>)>> >>)>>,
        <<K_expectedTypeUrls, JList(<<JStr(S_a), JList(<<JStr(S_b)>>)>>)>>,
        <<K_relations, JList(<<Rel(JInt(1))>>)>> >>}

Plans == TreePlans \cup RelationPlans \cup UriPlans \cup ExtPlans \cup OtherPlans

Tabs == [uri |-> uri_lookup, typ |-> typ_lookup, tv |-> tv_lookup, fn |-> fn_lookup]

\* the loop or block disas() runs next: a for-loop over an empty list has no
\* iteration
StartRels(rels) == IF rels # <<>> THEN "rels" ELSE "return"
StartExts(exts) == IF exts # <<>> THEN "exts" ELSE "proto"
StartUris(uris, exts) == IF uris # <<>> THEN "uris" ELSE StartExts(exts)

Init ==
    /\ plan \in Plans
    /\ pc = "unpack" /\ idx = 0
    /\ extension_uris = <<>> /\ extensions = <<>> /\ relations = <<>>
    /\ toplevel_enhancement = <<>> /\ toplevel_optimization = <<>>
    /\ expected_type_urls = <<>>
    /\ DisasFresh /\ err = NoExc /\ result = <<>>
    /\ FmtIdle /\ UnpIdle /\ OneOfIdle /\ UqIdle

\* an exception leaves disas(), which catches none: the run ends with it,
\* and what its frame held is gone
Fail(e) ==
    /\ pc' = "failed"
    /\ err' = e
    /\ UNCHANGED <<planVars, tableVars, idx, output, used_names, result>>

\* lines 100-132, the with-block of line 91 having given u and the one of
\* line 100 a: the containers are created, the banner of the extension
\* declarations is appended
Unpacked2(u, a) ==
    IF a.raised # NoExc THEN Fail(a.raised)
    ELSE /\ extension_uris' = u.rets[1].v
         /\ extensions' = u.rets[2].v
         /\ relations' = u.rets[3].v
         /\ expected_type_urls' = u.rets[5].v
         /\ toplevel_enhancement' = a.rets[1].v
         /\ toplevel_optimization' = a.rets[2].v
         \* '\n// Type/function extensions\n'
         /\ output' = IF u.rets[1].v # <<>> \/ u.rets[2].v # <<>>
                      THEN <<<<10, 47, 47, 32, 84, 121, 112, 101, 47, 102, 117, 110, 99, 116,
                               105, 111, 110, 32, 101, 120, 116, 101, 110, 115, 105, 111, 110,
                               115, 10>>>>
                      ELSE <<>>
         /\ pc' = StartUris(u.rets[1].v, u.rets[2].v)
         /\ UNCHANGED <<plan, tableVars, idx, used_names, err, result>>

Unpacked(u) ==
    IF u.raised # NoExc THEN Fail(u.raised)
    ELSE Unpacked2(u, Unpack(u.rets[4].v, AdvancedBody))

\* lines 88-132
UnpackPlan ==
    /\ pc = "unpack"
    /\ Unpacked(Unpack(plan, PlanBody))
    /\ UNCHANGED <<fmtVars, unpVars, oneofVars, uq_calls>>

\* lines 133-142: an iteration of the loop over extension_uris; it always
\* raises (see UriIteration)
UriStep ==
    /\ pc = "uris"
    /\ Fail(UriIteration(extension_uris))
    /\ UNCHANGED <<fmtVars, unpVars, oneofVars, uq_calls>>

ExtStepped(r) ==
    IF r.raised # NoExc THEN Fail(r.raised)
    ELSE /\ uri_lookup' = r.tabs.uri /\ typ_lookup' = r.tabs.typ
         /\ tv_lookup' = r.tabs.tv /\ fn_lookup' = r.tabs.fn
         /\ output' = r.out
         /\ used_names' = r.used
         /\ idx' = IF idx + 1 < Len(extensions) THEN idx + 1 ELSE 0
         /\ pc' = IF idx + 1 < Len(extensions) THEN "exts" ELSE "proto"
         /\ UNCHANGED <<planVars, err, result>>

\* lines 145-188: an iteration of the loop over extensions
ExtStep ==
    /\ pc = "exts"
    /\ ExtStepped(ExtensionIteration(extensions[idx + 1].v, Tabs, output, used_names))
    /\ UNCHANGED <<fmtVars, unpVars, oneofVars, uq_calls>>

ProtoStepped(r) ==
    IF r.raised # NoExc THEN Fail(r.raised)
    ELSE /\ output' = r.out
         /\ pc' = StartRels(relations)
         /\ UNCHANGED <<planVars, tableVars, idx, used_names, err, result>>

\* lines 191-201
ProtoStep ==
    /\ pc = "proto"
    /\ ProtoStepped(ProtoExtensions(toplevel_enhancement, toplevel_optimization,
                                    expected_type_urls, output))
    /\ UNCHANGED <<fmtVars, unpVars, oneofVars, uq_calls>>

RelStepped(r) ==
    IF r.raised # NoExc THEN Fail(r.raised)
    ELSE /\ output' = r.out
         /\ used_names' = r.used
         /\ idx' = IF idx + 1 < Len(relations) THEN idx + 1 ELSE 0
         /\ pc' = IF idx + 1 < Len(relations) THEN "rels" ELSE "return"
         /\ UNCHANGED <<planVars, tableVars, err, result>>

\* lines 267-287: an iteration of the loop over relations
RelStep ==
    /\ pc = "rels"
    /\ RelStepped(RelationIteration(idx, relations[idx + 1].v, Tabs, output, used_names))
    /\ UNCHANGED <<fmtVars, unpVars, oneofVars, uq_calls>>

\* line 290: return ''.join(output)
Return ==
    /\ pc = "return"
    /\ result' = Concat(output)
    /\ pc' = "done"
    /\ UNCHANGED <<planVars, tableVars, idx, output, used_names, err>>
    /\ UNCHANGED <<fmtVars, unpVars, oneofVars, uq_calls>>

Next == UnpackPlan \/ UriStep \/ ExtStep \/ ProtoStep \/ RelStep \/ Return

Spec == Init /\ [][Next]_vars

---------------------------------------------------------------------------
(* C8                                                                      *)

\* C8: make_ident is total and idempotent: its result is a non-empty string
\* for which is_ident holds, and applying make_ident to the result returns
\* the result unchanged.
C8_MakeIdentIdempotent ==
    /\ fpc \in {"once", "twice"} => fout # <<>> /\ is_ident(fout)
    /\ fpc = "twice" => fout2 = fout

\* a digit-leading string with an unsafe character and a trailing underscore
\* has been through make_ident twice
C8_Witness ==
    /\ fpc = "twice"
    /\ fin = <<49, 45, 95>>     \* '1-_'
    /\ fout = <<95, 49>>        \* '_1'
    /\ fout2 = fout

---------------------------------------------------------------------------
(* C3                                                                      *)

IsHexChar(c) == IsDigit(c) \/ c \in 65..70 \/ c \in 97..102
HexVal(c) == IF IsDigit(c) THEN c - 48 ELSE IF c \in 65..70 THEN c - 55 ELSE c - 87

\* The reader of the claim: the body of a literal (its text between the
\* delimiting quotes) decoded from position i on.  An escape the claim does
\* not name decodes to the marker -1.
RECURSIVE Unescape(_, _)
Unescape(body, i) ==
    IF i > Len(body) THEN <<>>
    ELSE IF body[i] # 92 THEN <<body[i]>> \o Unescape(body, i + 1)
    ELSE IF i = Len(body) THEN <<-1>>
    ELSE IF body[i + 1] = 98 THEN <<8>> \o Unescape(body, i + 2)
    ELSE IF body[i + 1] = 102 THEN <<12>> \o Unescape(body, i + 2)
    ELSE IF body[i + 1] = 110 THEN <<10>> \o Unescape(body, i + 2)
    ELSE IF body[i + 1] = 114 THEN <<13>> \o Unescape(body, i + 2)
    ELSE IF body[i + 1] = 116 THEN <<9>> \o Unescape(body, i + 2)
    ELSE IF /\ body[i + 1] = 117
            /\ i + 5 <= Len(body)
            /\ \A k \in (i + 2)..(i + 5) : IsHexChar(body[k])
         THEN <<4096 * HexVal(body[i + 2]) + 256 * HexVal(body[i + 3])
                  + 16 * HexVal(body[i + 4]) + HexVal(body[i + 5])>>
              \o Unescape(body, i + 6)
    ELSE <<-1>>

\* the positions of the double quotes of a literal that no backslash precedes
UnescapedQuotes(lit) ==
    {i \in 1..Len(lit) : lit[i] = 34 /\ (i = 1 \/ lit[i - 1] # 92)}

\* C3: make_string round-trips: the literal read back (quotes stripped,
\* escapes decoded) is the original string, and the closing delimiter is the
\* last character and the only unescaped double quote after the opening one.
C3_MakeStringRoundTrip ==
    fpc = "once" =>
        /\ Len(fout) >= 2
        /\ Unescape(SubSeq(fout, 2, Len(fout) - 1), 1) = fin
        /\ UnescapedQuotes(fout) = {1, Len(fout)}

\* the part of C3 that the code does satisfy, kept to show the reader above
\* inverts the escapes make_string writes: strings without '"' and '\'
C3_RoundTripWithoutQuoteOrBackslash ==
    (fpc = "once" /\ \A i \in 1..Len(fin) : fin[i] \notin {34, 92}) =>
        /\ Unescape(SubSeq(fout, 2, Len(fout) - 1), 1) = fin
        /\ UnescapedQuotes(fout) = {1, Len(fout)}

---------------------------------------------------------------------------
(* C4                                                                      *)

\* C4: pop(key, kind, default?) matches the four-case contract: (1) key
\* present with a value of the expected kind: the key is removed and the
\* value returned; (2) key present with a value of another kind:
\* TypeMismatch; (3) key absent and a default given: the default is returned
\* whatever its kind, with no failure and the mapping unchanged; (4) key
\* absent and no default: MissingField.
C4_PopContract ==
    u_last.called =>
        LET c == u_last
            present == HasKey(c.before, c.key)
        IN  /\ (present /\ IsInstance(Get(c.before, c.key), c.typ)) =>
                   /\ c.raised = NoExc
                   /\ c.ret = Get(c.before, c.key)
                   /\ c.after = Remove(c.before, c.key)
            /\ (present /\ ~IsInstance(Get(c.before, c.key), c.typ)) =>
                   c.raised.kind = "TypeMismatch" /\ c.raised.key = c.key
            /\ (~present /\ c.default.t # "Missing") =>
                   c.raised = NoExc /\ c.ret = c.default /\ c.after = c.before
            /\ (~present /\ c.default.t = "Missing") =>
                   c.raised.kind = "MissingField" /\ c.raised.key = c.key

\* the cases of C4 the code does satisfy: (1), (2) and (4), and (3) for a
\* default of the expected kind
C4_PopContractButDefaultKind ==
    u_last.called =>
        LET c == u_last
            present == HasKey(c.before, c.key)
        IN  /\ (present /\ IsInstance(Get(c.before, c.key), c.typ)) =>
                   /\ c.raised = NoExc
                   /\ c.ret = Get(c.before, c.key)
                   /\ c.after = Remove(c.before, c.key)
            /\ (present /\ ~IsInstance(Get(c.before, c.key), c.typ)) =>
                   c.raised.kind = "TypeMismatch" /\ c.raised.key = c.key
            /\ (~present /\ c.default.t # "Missing" /\ IsInstance(c.default, c.typ)) =>
                   c.raised = NoExc /\ c.ret = c.default /\ c.after = c.before
            /\ (~present /\ c.default.t = "Missing") =>
                   c.raised.kind = "MissingField" /\ c.raised.key = c.key

---------------------------------------------------------------------------
(* C5                                                                      *)

\* C5: the failure a with-block over a MessageUnpacker ends with is
\* classified by its cause: none if the body completes and the mapping is
\* empty; UnexpectedFields naming the leftover keys if the body completes
\* and keys remain; the MissingField itself if a pop of a required key found
\* it absent, and the TypeMismatch itself if a pop found a value of the wrong
\* kind, whichever other keys have not been consumed when the pop fails.
C5_ScopeFailureByCause ==
    u_pc = "done" =>
        /\ (u_pending = NoExc /\ u_obj = <<>>) => u_err = NoExc
        /\ (u_pending = NoExc /\ u_obj # <<>>) =>
               u_err.kind = "UnexpectedFields" /\ u_err.keys = Keys(u_obj)
        /\ (u_pending.kind = "MissingField") => u_err = u_pending
        /\ (u_pending.kind = "TypeMismatch" /\ HasKey(u_last.before, u_last.key)) =>
               u_err = u_pending

\* the part of C5 the code does satisfy: the classification when the failing
\* pop leaves no key behind
C5_ScopeFailureByCauseNoLeftover ==
    u_pc = "done" =>
        /\ (u_pending = NoExc /\ u_obj = <<>>) => u_err = NoExc
        /\ (u_pending = NoExc /\ u_obj # <<>>) =>
               u_err.kind = "UnexpectedFields" /\ u_err.keys = Keys(u_obj)
        /\ (u_pending # NoExc /\ u_obj = <<>>) => u_err = u_pending

---------------------------------------------------------------------------
(* C6                                                                      *)

\* C6: constructing a OneOfMessageUnpacker over a mapping with zero or with
\* two or more entries fails MalformedOneof at construction; over a
\* single-entry mapping handle returns true exactly for the stored tag, and
\* the with-block ends without failure if and only if some handle call was
\* made with the stored tag, and with UnknownVariant naming the tag
\* otherwise.
C6_OneOfContract ==
    /\ (o_pc # "new" /\ Len(o_obj) # 1) =>
           o_pc = "done" /\ o_err.kind = "MalformedOneof" /\ o_calls = <<>>
    /\ (o_pc # "new" /\ Len(o_obj) = 1) =>
           /\ o_self.key = o_obj[1][1] /\ o_self.val = o_obj[1][2]
           /\ \A i \in 1..Len(o_calls) : o_calls[i].ret = (o_calls[i].tag = o_obj[1][1])
    /\ (o_pc = "done" /\ Len(o_obj) = 1) =>
           /\ o_err = NoExc <=> \E i \in 1..Len(o_calls) : o_calls[i].tag = o_obj[1][1]
           /\ o_err # NoExc => o_err.kind = "UnknownVariant" /\ o_err.key = o_obj[1][1]

\* a with-block over {rel: ...} has ended without failure after handle('root')
\* returned false and handle('rel') returned true
C6_Witness ==
    /\ o_pc = "done" /\ o_err = NoExc
    /\ Len(o_obj) = 1 /\ o_obj[1][1] = K_rel
    /\ o_calls = <<[tag |-> K_root, ret |-> FALSE], [tag |-> K_rel, ret |-> TRUE]>>

---------------------------------------------------------------------------
(* C7                                                                      *)

\* name_i
Suffixed(name, i) == name \o <<95>> \o IntStr(i)

\* C7: no two uniquify calls of a run return the same name; each call
\* returns the candidate itself when it is unused and otherwise the candidate
\* with the smallest suffix _i (i >= 2) not yet issued; the returned name is
\* in the issued set afterwards.
C7_UniquifyUnique ==
    /\ \A i, j \in 1..Len(uq_calls) : i # j => uq_calls[i].ret # uq_calls[j].ret
    /\ \A i \in 1..Len(uq_calls) :
          LET c == uq_calls[i]
          IN  /\ c.name \notin c.before => c.ret = c.name
              /\ c.name \in c.before =>
                     \E k \in 2..(Cardinality(c.before) + 2) :
                        /\ c.ret = Suffixed(c.name, k)
                        /\ c.ret \notin c.before
                        /\ \A m \in 2..(k - 1) : Suffixed(c.name, m) \in c.before
              /\ c.ret \in used_names
    /\ used_names = {uq_calls[i].ret : i \in 1..Len(uq_calls)}

\* the candidates a, a_2, a, a have been given the names a, a_2, a_3, a_4
C7_Witness ==
    /\ Len(uq_calls) = 4
    /\ [i \in 1..4 |-> uq_calls[i].name] = <<<<97>>, <<97, 95, 50>>, <<97>>, <<97>>>>
    /\ [i \in 1..4 |-> uq_calls[i].ret]
           = <<<<97>>, <<97, 95, 50>>, <<97, 95, 51>>, <<97, 95, 52>>>>

---------------------------------------------------------------------------
(* What the statements of the output say.                                   *)

\* the relations the loop of line 267 has been through; a run that failed
\* keeps no record of where
Processed ==
    IF pc = "rels" THEN idx
    ELSE IF pc \in {"return", "done"} THEN Len(relations)
    ELSE 0

\* 'rel_<i>'
RelSymbol(i) == K_rel \o <<95>> \o IntStr(i)

StartsWith(text, prefix) ==
    Len(text) >= Len(prefix) /\ SubSeq(text, 1, Len(prefix)) = prefix

\* a statement 'raw <symbol> = <body>;\n\n'
IsRaw(stmt) == StartsWith(stmt, <<114, 97, 119, 32>>)
\* the position of the blank that ends the symbol of a raw statement
SymbolEnd(stmt) == CHOOSE e \in 5..Len(stmt) : stmt[e] = 32 /\ \A q \in 5..(e - 1) : stmt[q] # 32
SymbolOf(stmt) == SubSeq(stmt, 5, SymbolEnd(stmt) - 1)
BodyOf(stmt) == SubSeq(stmt, SymbolEnd(stmt) + 3, Len(stmt) - 3)

\* the positions of text at which the bare symbol sym stands as the value of
\* a mapping item: after ': ', and followed by no identifier character
RefPositions(text, sym) ==
    {q \in 3..(Len(text) - Len(sym) + 1) :
        /\ text[q - 2] = 58 /\ text[q - 1] = 32
        /\ SubSeq(text, q, q + Len(sym) - 1) = sym
        /\ q + Len(sym) <= Len(text) => ~IsSafeChar(text[q + Len(sym)])}

\* the number of '{' in text; no key and no string of the drawn trees holds one
Braces(text) == Cardinality({q \in 1..Len(text) : text[q] = 123})

RawIndexes == {j \in 1..Len(output) : IsRaw(output[j])}

RECURSIVE Sum(_, _)
\* the sum of f over the set S of indexes
Sum(f, S) == IF S = {} THEN 0 ELSE LET x == CHOOSE y \in S : TRUE IN f[x] + Sum(f, S \ {x})

RECURSIVE InputMappings(_)
\* the number of mapping values under the key 'input' in tree, at any depth
InputMappings(tree) ==
    IF tree.t = "dict"
    THEN Sum([i \in 1..Len(tree.v) |->
                 (IF tree.v[i][1] = K_input /\ tree.v[i][2].t = "dict" THEN 1 ELSE 0)
                 + InputMappings(tree.v[i][2])],
             1..Len(tree.v))
    ELSE IF tree.t = "list"
    THEN Sum([i \in 1..Len(tree.v) |-> InputMappings(tree.v[i])], 1..Len(tree.v))
    ELSE 0

RECURSIVE AllMappings(_)
\* the number of mappings in tree, the tree itself included
AllMappings(tree) ==
    IF tree.t = "dict"
    THEN 1 + Sum([i \in 1..Len(tree.v) |-> AllMappings(tree.v[i][2])], 1..Len(tree.v))
    ELSE IF tree.t = "list"
    THEN Sum([i \in 1..Len(tree.v) |-> AllMappings(tree.v[i])], 1..Len(tree.v))
    ELSE 0

RECURSIVE InlineMappings(_)
\* the number of mappings in tree that no 'input' item leads to
InlineMappings(tree) ==
    IF tree.t = "dict"
    THEN 1 + Sum([i \in 1..Len(tree.v) |->
                     IF tree.v[i][1] = K_input /\ tree.v[i][2].t = "dict" THEN 0
                     ELSE InlineMappings(tree.v[i][2])],
                 1..Len(tree.v))
    ELSE IF tree.t = "list"
    THEN Sum([i \in 1..Len(tree.v) |-> InlineMappings(tree.v[i])], 1..Len(tree.v))
    ELSE 0

\* the tree of the relation at position i (from 0), of the rel variant
TreeOf(i) == relations[i + 1].v[1][2]

---------------------------------------------------------------------------
(* C1                                                                      *)

\* {"root": {"input": <mapping>, "names": <sequence of strings>}}
IsRootEntry(r) ==
    /\ r.t = "dict" /\ Keys(r.v) = <<K_root>>
    /\ Get(r.v, K_root).t = "dict"
    /\ Len(Get(r.v, K_root).v) = 2
    /\ HasKey(Get(r.v, K_root).v, K_input) /\ HasKey(Get(r.v, K_root).v, K_names)
    /\ Get(Get(r.v, K_root).v, K_input).t = "dict"
    /\ Get(Get(r.v, K_root).v, K_names).t = "list"
    /\ \A i \in 1..Len(Get(Get(r.v, K_root).v, K_names).v) :
          Get(Get(r.v, K_root).v, K_names).v[i].t = "str"

\* '(' + ', '.join(map(make_string, names)) + ')'
QuotedNames(names) ==
    <<40>> \o Join(<<44, 32>>, [i \in 1..Len(names) |-> make_string(names[i].v)]) \o <<41>>

\* C1: the iteration of the relation loop on an entry
\* {"root": {"input": <mapping>, "names": <sequence of strings>}} at index i
\* does not fail: it appends 'raw rel_i = <tree>;' and then
\* 'execute rel_i(<names>);', the names quoted, comma-separated and in
\* their order.
C1_RootRelationEmitted ==
    [][(pc = "rels" /\ IsRootEntry(relations[idx + 1])) =>
          /\ pc' # "failed"
          /\ Len(output') >= 2
          /\ IsRaw(output'[Len(output') - 1])
          /\ SymbolOf(output'[Len(output') - 1]) = RelSymbol(idx)
          /\ Braces(output'[Len(output') - 1])
                 = InlineMappings(Get(Get(relations[idx + 1].v, K_root).v, K_input))
          /\ output'[Len(output')]
                 = ExecuteStatement(RelSymbol(idx),
                                    QuotedNames(Get(Get(relations[idx + 1].v, K_root).v, K_names).v))
      ]_vars

---------------------------------------------------------------------------
(* C2                                                                      *)

\* {extensionUriAnchor: non-negative integer, uri: string}
IsUriEntry(e) ==
    /\ e.t = "dict" /\ Len(e.v) = 2
    /\ HasKey(e.v, K_extensionUriAnchor) /\ HasKey(e.v, K_uri)
    /\ Get(e.v, K_extensionUriAnchor).t = "int" /\ Get(e.v, K_extensionUriAnchor).v >= 0
    /\ Get(e.v, K_uri).t = "str"

\* f'using {ref} = {uri} = {anchor};\n' of line 142 for the entry e
UsingStatement(ref, e) ==
    <<117, 115, 105, 110, 103, 32>> \o ref \o <<32, 61, 32>>
        \o make_string(Get(e.v, K_uri).v) \o <<32, 61, 32>>
        \o IntStr(Get(e.v, K_extensionUriAnchor).v) \o <<59, 10>>

\* C2: when extensionUris is non-empty and its entries are mappings
\* {extensionUriAnchor: non-negative integer, uri: string}, the loop over
\* them does not fail; when it is through, the output holds one
\* 'using <symbol> = "<uri>" = <anchor>;' for each entry, in their order,
\* and the URI table maps the anchor of each entry to its symbol.
C2_ExtensionUrisDeclared ==
    [][(/\ pc = "uris"
        /\ extension_uris # <<>>
        /\ \A i \in 1..Len(extension_uris) : IsUriEntry(extension_uris[i])) =>
          /\ pc' # "failed"
          /\ pc' # "uris" =>
                /\ \A i \in 1..Len(extension_uris) :
                      Get(extension_uris[i].v, K_extensionUriAnchor).v \in DOMAIN uri_lookup'
                /\ \E f \in [1..Len(extension_uris) -> 1..Len(output')] :
                      /\ \A i \in 1..Len(extension_uris) : \A k \in 1..Len(extension_uris) :
                            i < k => f[i] < f[k]
                      /\ \A i \in 1..Len(extension_uris) :
                            \E ref \in used_names' :
                               /\ output'[f[i]] = UsingStatement(ref, extension_uris[i])
                               /\ i = Len(extension_uris) =>
                                     uri_lookup'[Get(extension_uris[i].v, K_extensionUriAnchor).v] = ref
      ]_vars

---------------------------------------------------------------------------
(* C9                                                                      *)

\* C9: at every depth a mapping under a key other than 'input' is rendered
\* inline in its parent's text and creates no binding; a mapping under the
\* key 'input', the empty one included, is never rendered inline: one new
\* raw statement is appended for it and the parent's text holds the bare
\* symbol in its place.  One relation produces 1 + (number of 'input'
\* mappings of its tree) raw statements.
C9_InputMappingsHoisted ==
    LET done == 0..(Processed - 1)
    IN  pc \in {"rels", "return", "done"} =>
        \* one raw statement for each relation and for each 'input' mapping
        /\ Cardinality(RawIndexes) = Sum([i \in done |-> 1 + InputMappings(TreeOf(i))], done)
        \* every mapping is rendered once
        /\ Sum([j \in RawIndexes |-> Braces(output[j])], RawIndexes)
               = Sum([i \in done |-> AllMappings(TreeOf(i))], done)
        \* the statement of a relation renders the mappings no 'input' leads to
        /\ \A i \in done :
              \E j \in RawIndexes :
                 /\ SymbolOf(output[j]) = RelSymbol(i)
                 /\ Braces(output[j]) = InlineMappings(TreeOf(i))
        \* every other raw statement stands for one 'input' item: its symbol
        \* is the value of one item of one statement
        /\ \A j \in RawIndexes :
              (\A i \in done : SymbolOf(output[j]) # RelSymbol(i)) =>
                  Sum([k \in RawIndexes |->
                          Cardinality(RefPositions(BodyOf(output[k]), SymbolOf(output[j])))],
                      RawIndexes) = 1

\* the tree {input: {input: {}}, a: {input: {}}} has given four raw statements
C9_Witness ==
    /\ pc = "done"
    /\ relations = <<Rel(JDict(<< <<K_input, JDict(<< <<K_input, JDict(<<>>)>> >>)>>,
                                  <<S_a, JDict(<< <<K_input, JDict(<<>>)>> >>)>> >>))>>
    /\ Cardinality(RawIndexes) = 4
    /\ \E j \in RawIndexes : SymbolOf(output[j]) = RelSymbol(0) /\ Braces(output[j]) = 2

---------------------------------------------------------------------------
(* C10                                                                     *)

\* C10: the statement of every hoisted binding 'raw S = ...;' is appended
\* before the statement whose text holds the reference S, and for every
\* relation 'raw rel_i = ...;' is appended before 'execute rel_i...;'.
C10_DeclaredBeforeUse ==
    /\ \A j \in RawIndexes : \A k \in RawIndexes :
          RefPositions(BodyOf(output[k]), SymbolOf(output[j])) # {} => j < k
    /\ \A i \in 0..(Processed - 1) :
          \E j \in RawIndexes :
             /\ SymbolOf(output[j]) = RelSymbol(i)
             /\ j < Len(output)
             /\ StartsWith(output[j + 1], <<101, 120, 101, 99, 117, 116, 101, 32>> \o RelSymbol(i))
             /\ \A k \in 1..j : ~StartsWith(output[k], <<101, 120, 101, 99, 117, 116, 101, 32>>
                                                         \o RelSymbol(i))

\* two relations are through, the first {a: {input: {input: {}}}}: the
\* innermost binding is the first statement, rel_0 the third, and the
\* statements of the second relation follow execute rel_0
C10_Witness ==
    /\ pc = "done"
    /\ Len(relations) = 2
    /\ TreeOf(0) = JDict(<< <<S_a, JDict(<< <<K_input, JDict(<< <<K_input, JDict(<<>>)>> >>)>> >>)>> >>)
    /\ TreeOf(1) = JDict(<< <<K_input, JDict(<<>>)>> >>)
    /\ [j \in 1..5 |-> SymbolOf(output[CHOOSE n \in RawIndexes :
                                          Cardinality({m \in RawIndexes : m <= n}) = j])]
           = << K_rel \o <<95, 48, 95>> \o S_unknown,      \* rel_0_unknown
                K_rel \o <<95, 48, 95>> \o K_input,        \* rel_0_input
                RelSymbol(0),
                K_rel \o <<95, 49, 95>> \o S_unknown,      \* rel_1_unknown
                RelSymbol(1) >>

---------------------------------------------------------------------------
(* C11                                                                     *)

\* the variant of a declaration e of the extensions list
VariantOf(e) == ExtensionVariants[CHOOSE i \in 1..Len(ExtensionVariants) :
                                     Keys(e.v) = <<ExtensionVariants[i].tag>>]
AnchorOf(e) ==
    IF HasKey(e.v[1][2].v, VariantOf(e).anchorKey)
    THEN Get(e.v[1][2].v, VariantOf(e).anchorKey).v ELSE 0
NameOf(e) == Get(e.v[1][2].v, K_name).v

\* {<variant>: {extensionUriReference: int, <anchor>: non-negative int,
\* name: string}}, the reference and the anchor optional
IsExtEntry(e) ==
    /\ e.t = "dict" /\ Len(e.v) = 1
    /\ \E i \in 1..Len(ExtensionVariants) :
          /\ e.v[1][1] = ExtensionVariants[i].tag
          /\ e.v[1][2].t = "dict"
          /\ \A k \in 1..Len(e.v[1][2].v) :
                \/ e.v[1][2].v[k][1] = K_name /\ e.v[1][2].v[k][2].t = "str"
                \/ e.v[1][2].v[k][1] = K_extensionUriReference /\ e.v[1][2].v[k][2].t = "int"
                \/ /\ e.v[1][2].v[k][1] = ExtensionVariants[i].anchorKey
                   /\ e.v[1][2].v[k][2].t = "int" /\ e.v[1][2].v[k][2].v >= 0
          /\ HasKey(e.v[1][2].v, K_name)

\* declarations with non-negative anchors, distinct within each kind
DistinctAnchors(es) ==
    /\ \A i \in 1..Len(es) : IsExtEntry(es[i])
    /\ \A i \in 1..Len(es) : \A j \in 1..Len(es) :
          (i # j /\ VariantOf(es[i]) = VariantOf(es[j])) => AnchorOf(es[i]) # AnchorOf(es[j])

\* the name a symbol is derived from: add, sub, mult, div for + - * /
OperatorName(n) ==
    IF n = <<43>> THEN <<97, 100, 100>>
    ELSE IF n = <<45>> THEN <<115, 117, 98>>
    ELSE IF n = <<42>> THEN <<109, 117, 108, 116>>
    ELSE IF n = <<47>> THEN <<100, 105, 118>>
    ELSE n

\* what the table of its kind gives for the declaration es[i]
SymbolAt(es, i, tabs) == tabs[VariantOf(es[i]).table][AnchorOf(es[i])]

\* the first n declarations of es stand in out (after the banner) and in tabs
Declared(es, n, out, tabs, used) ==
    \A i \in 1..n :
       /\ AnchorOf(es[i]) \in DOMAIN tabs[VariantOf(es[i]).table]
       /\ SymbolAt(es, i, tabs) \in used
       /\ \A j \in 1..(i - 1) : SymbolAt(es, j, tabs) # SymbolAt(es, i, tabs)
       /\ SymbolAt(es, i, tabs)
              = uniquify(make_ident(<<VariantOf(es[i]).prefix, OperatorName(NameOf(es[i]))>>),
                         {SymbolAt(es, j, tabs) : j \in 1..(i - 1)}).ret
       /\ Len(out) >= i + 1
       /\ StartsWith(out[i + 1], VariantOf(es[i]).decl \o <<32>> \o SymbolAt(es, i, tabs)
                                     \o <<32, 61, 32>>)

\* C11: for extensions entries (function, type, type variation) with
\* non-negative anchors, distinct within each kind, no iteration of the loop
\* fails, and after each the declarations so far have symbols that are
\* pairwise distinct, each uniquify(make_ident(prefix, n)) with prefix
\* fn/typ/tv by kind and n the declared name, + - * / read as add sub mult
\* div, and the table of the kind maps the anchor to that symbol.
C11_ExtensionsDeclared ==
    [][(pc = "exts" /\ DistinctAnchors(extensions)) =>
          /\ pc' # "failed"
          /\ Declared(extensions, idx + 1, output', Tabs', used_names')
      ]_vars

\* two functions named a, anchors 0 and 2, are fn_a and fn_a_2
C11_Witness ==
    /\ pc = "done"
    /\ Len(extensions) = 2 /\ DistinctAnchors(extensions)
    /\ NameOf(extensions[1]) = S_a /\ NameOf(extensions[2]) = S_a
    /\ fn_lookup = [a \in {0, 2} |-> IF a = 0 THEN S_fn \o <<95>> \o S_a
                                     ELSE S_fn \o <<95>> \o S_a \o <<95, 50>>]

---------------------------------------------------------------------------
(* C12                                                                     *)

IsExecute(stmt) == StartsWith(stmt, <<101, 120, 101, 99, 117, 116, 101, 32>>)

\* C12: when the relations gone through are of the rel variant, the output
\* holds one execute statement for each, in their order, and the one of the
\* relation at index i is 'execute rel_i;', without a name list: the symbol
\* of the relation is rel_i without a suffix, whatever symbols extensions
\* and hoisted bindings were given before.
C12_ExecuteRelI ==
    pc \in {"rels", "return", "done"} =>
        /\ \A i \in 1..Processed : Keys(relations[i].v) = <<K_rel>>
        /\ SelectSeq(output, IsExecute)
               = [i \in 1..Processed |->
                     <<101, 120, 101, 99, 117, 116, 101, 32>> \o RelSymbol(i - 1) \o <<59, 10>>]

\* two relations whose hoisted subtrees have the keys '' and '1': the
\* bindings are rel_0_2 (rel_0 being taken) and rel_1_1
C12_Witness ==
    /\ pc = "done"
    /\ relations = <<Rel(JDict(<< <<K_input, JDict(<< <<<<>>, JDict(<<>>)>> >>)>> >>)),
                     Rel(JDict(<< <<K_input, JDict(<< <<<<49>>, JInt(1)>> >>)>> >>))>>
    /\ {SymbolOf(output[j]) : j \in RawIndexes}
           = {RelSymbol(0), RelSymbol(0) \o <<95, 50>>, RelSymbol(1), RelSymbol(1) \o <<95, 49>>}
    /\ Len(SelectSeq(output, IsExecute)) = 2

---------------------------------------------------------------------------
(* C13                                                                     *)

RECURSIVE InputSubtrees(_)
\* the mappings under the key 'input' in tree, at any depth
InputSubtrees(tree) ==
    IF tree.t = "dict"
    THEN UNION {(IF tree.v[i][1] = K_input /\ tree.v[i][2].t = "dict" THEN {tree.v[i][2]} ELSE {})
                \cup InputSubtrees(tree.v[i][2]) : i \in 1..Len(tree.v)}
    ELSE IF tree.t = "list"
    THEN UNION {InputSubtrees(tree.v[i]) : i \in 1..Len(tree.v)}
    ELSE {}

\* the key of a mapping of one key, 'unknown' for any other mapping
SingleKeyOrUnknown(sub) == IF Len(sub.v) = 1 THEN sub.v[1][1] ELSE S_unknown

\* C13: the symbol of a hoisted 'input' subtree is
\* uniquify(make_ident(current declaration name, k)), k being the key of
\* the subtree when it has exactly one key and 'unknown' when it is empty
\* or has two or more keys.  Stated for the relations whose tree holds one
\* such subtree: its statement stands right before the one of rel_i, and
\* rel_i is the one symbol in use that begins like it.
C13_HoistedSymbolKey ==
    pc \in {"rels", "return", "done"} =>
        \A i \in 0..(Processed - 1) :
           InputMappings(TreeOf(i)) = 1 =>
              \E j \in RawIndexes :
                 /\ j + 1 \in RawIndexes
                 /\ SymbolOf(output[j + 1]) = RelSymbol(i)
                 /\ \A sub \in InputSubtrees(TreeOf(i)) :
                       SymbolOf(output[j])
                           = uniquify(make_ident(<<RelSymbol(i), SingleKeyOrUnknown(sub)>>),
                                      {RelSymbol(i)}).ret

---------------------------------------------------------------------------
(* C14                                                                     *)

\* the table a key is resolved in, "none" for a key that is no reference
TableOfKey(key) ==
    IF key \in {K_functionReference, K_comparisonFunctionReference} THEN "fn"
    ELSE IF key = K_userDefinedTypeReference THEN "typ"
    ELSE IF key = K_typeVariationReference THEN "tv"
    ELSE "none"

RECURSIVE Substituted(_, _, _)
\* the text of node at indent with the references to tabs substituted: an
\* integer under a reference key is the symbol its own table has for it, or
\* its decimal string; bool, string, null, list and mapping values go the
\* normal way.  For trees without 'input' mappings.
Substituted(node, indent, tabs) ==
    IF node.t = "dict"
    THEN <<123>>
         \o Concat([k \in 1..Len(node.v) |->
                (IF k = 1 THEN <<>> ELSE <<44>>) \o <<10>> \o indent \o <<32, 32>>
                \o make_string(node.v[k][1]) \o <<58, 32>>
                \o (IF TableOfKey(node.v[k][1]) # "none" /\ node.v[k][2].t = "int"
                    THEN IF node.v[k][2].v \in DOMAIN tabs[TableOfKey(node.v[k][1])]
                         THEN tabs[TableOfKey(node.v[k][1])][node.v[k][2].v]
                         ELSE IntStr(node.v[k][2].v)
                    ELSE Substituted(node.v[k][2], indent \o <<32, 32>>, tabs))])
         \o <<10>> \o indent \o <<125>>
    ELSE IF node.t = "list"
    THEN <<91>>
         \o Concat([k \in 1..Len(node.v) |->
                (IF k = 1 THEN <<>> ELSE <<44>>) \o <<10>> \o indent \o <<32, 32>>
                \o Substituted(node.v[k], indent \o <<32, 32>>, tabs)])
         \o <<10>> \o indent \o <<93>>
    ELSE json_dumps_leaf(node)

\* C14: under functionReference and comparisonFunctionReference an integer
\* is rendered as the symbol the function table has for it, under
\* userDefinedTypeReference the type table's, under typeVariationReference
\* the type-variation table's, each table for its own keys only; an integer
\* its table does not hold is rendered as its decimal string; a value that
\* is no integer (boolean, string, null, list, mapping) is not substituted
\* and is rendered by the normal recursion.
C14_ReferencesSubstituted ==
    pc \in {"rels", "return", "done"} =>
        \A i \in 0..(Processed - 1) :
           InputMappings(TreeOf(i)) = 0 =>
              \E j \in RawIndexes :
                 /\ SymbolOf(output[j]) = RelSymbol(i)
                 /\ BodyOf(output[j]) = Substituted(TreeOf(i), <<>>, Tabs)

====
